---- MODULE Spec2Model ----
(***************************************************************************)
(* Model of src/src/matrix.rs: Matrix::multiply with its pool of           *)
(* NUM_THREADS worker threads, the per-worker mpsc queues, the per-cell    *)
(* oneshot reply channels, the Mul operator, and the Display / Debug       *)
(* rendering of a Matrix.                                                  *)
(***************************************************************************)
EXTENDS Integers, Sequences, FiniteSets

\* src/src/matrix.rs:11
NUM_THREADS == 4

\* Bounds of the operands of a multiply call.
MaxRows == 2
MaxInner == 3
MaxCols == 4
\* Bound of the number of cells of the result (the tasks of one call).
MaxCells == 8

\* Bounds of the matrices that are formatted.
MaxFmtRows == 2
MaxFmtCols == 2

\* data.len() - rows*columns of an operand: Matrix::new does not check it.
Slack == {-1, 0, 1}

Workers == 0 .. (NUM_THREADS - 1)

VARIABLES
    self,        \* the left operand  (&self of multiply)
    other,       \* the right operand (other of multiply)
    viaMul,      \* TRUE: the call is a * b (Mul::mul), FALSE: a.multiply(&b)
    pc,          \* position of the calling thread
    i, j,        \* loop variables of the dispatch loop
    senders,     \* the Vec of mpsc senders: "none", "alive", "dropped"
    queue,       \* queue[w]: the messages in flight to worker w
    worker,      \* worker[w]: "none", "running", "exited" (Ok), "failed" (Err)
    allocated,   \* the output buffer and the receivers Vec exist
    data,        \* the output buffer
    receivers,   \* the retained oneshot receivers (channel numbers)
    collected,   \* how many receivers the collector loop has consumed
    chan,        \* the oneshot channels, in creation order
    ret,         \* what multiply returned
    mulRet,      \* what Mul::mul returned
    submitted,   \* log: every send attempt of the dispatch loop
    processed,   \* log: processed[w] is what worker w did, in order
    written,     \* log: the slots the collector wrote, in order
    raced,       \* a reply was sent while a reply of a smaller idx was pending
    fm,          \* the matrix being formatted
    fmode,       \* "Display" or "Debug"
    fpc,         \* position in fmt
    fi, fj,      \* loop variables of Display::fmt
    fout         \* the characters written to the formatter so far

mvars == << self, other, viaMul, pc, i, j, senders, queue, worker, allocated,
            data, receivers, collected, chan, ret, mulRet, submitted,
            processed, written, raced >>

fvars == << fm, fmode, fpc, fi, fj, fout >>

(***************************************************************************)
(* Values                                                                  *)
(***************************************************************************)

\* Matrix::new(data, rows, columns): no check of data.len().
Matrix(d, r, c) == [rows |-> r, columns |-> c, data |-> d]

\* T::default() of the integer element type.
Default == 0

\* The operands' data: n consecutive integers from base (the tests use 1..6).
Iota(base, n) == [p \in 1 .. n |-> base + p - 1]

NoResult == [kind |-> "None", err |-> "", rows |-> 0, columns |-> 0, data |-> << >>]
Ok(m)    == [kind |-> "Ok", err |-> "", rows |-> m.rows, columns |-> m.columns,
             data |-> m.data]
Err(e)   == [kind |-> "Err", err |-> e, rows |-> 0, columns |-> 0, data |-> << >>]

MsgInput(idx, row, col) == [idx |-> idx, row |-> row, col |-> col]
\* A faulty variant of MsgOutput: the reply is numbered by its arrival rank (as a
\* shared result queue would), not by the task's idx.
MsgOutputByArrival(idx, val) ==
    [idx |-> Cardinality({n \in 1 .. Len(chan) : chan[n].state = "sent"}),
     val |-> val]

\* A faulty variant of MsgOutput: the reply carries the number of the worker
\* instead of the task's idx.
MsgOutputWorkerIdx(idx, val) == [idx |-> idx % NUM_THREADS, val |-> val]

MsgOutput(idx, val)     == [idx |-> idx, val |-> val]
Msg(input, sender)      == [input |-> input, sender |-> sender]

\* A oneshot channel: state "open" (sender alive, nothing sent), "sent"
\* (the sender was consumed by send), "closed" (the sender was dropped
\* without sending); rx: the receiver is still alive; msg: the value in it.
NewChannel == [state |-> "open", rx |-> TRUE, msg |-> << >>]

(***************************************************************************)
(* dot_product (crate root, not under src/): fails when the lengths        *)
(* differ, else the sum of a[t]*b[t] accumulated from T::default().        *)
(***************************************************************************)
RECURSIVE SumProd(_, _, _, _)
SumProd(a, b, t, acc) ==
    IF t > Len(a) THEN acc ELSE SumProd(a, b, t + 1, acc + a[t] * b[t])

dot_product(a, b) ==
    IF Len(a) # Len(b)
    THEN [ok |-> FALSE, val |-> Default]
    ELSE [ok |-> TRUE, val |-> SumProd(a, b, 1, Default)]

(***************************************************************************)
(* Row and column extraction of the dispatch loop                          *)
(***************************************************************************)

\* self.data[i * self.columns..(i + 1) * self.columns] panics when the end
\* of the range is beyond data.len().
RowPanics(m, r) == (r + 1) * m.columns > Len(m.data)

Row(m, r) == SubSeq(m.data, r * m.columns + 1, (r + 1) * m.columns)

\* other.data[j..] panics when j > data.len().
ColumnPanics(m, c) == c > Len(m.data)

\* other.data[j..].iter().step_by(other.columns): the elements at offsets
\* j, j + columns, j + 2*columns, ... below data.len().
ColumnLen(m, c) ==
    IF Len(m.data) <= c THEN 0 ELSE ((Len(m.data) - c - 1) \div m.columns) + 1

\* A faulty variant of Column: the gather without the stride
\* (other.data[j..].iter() with no step_by).
ColumnNoStride(m, c) == [t \in 1 .. (Len(m.data) - c) |-> m.data[c + t]]

Column(m, c) == [t \in 1 .. ColumnLen(m, c) |-> m.data[c + (t - 1) * m.columns + 1]]

\* A faulty variant of Idx: the destination index without the row stride.
IdxNoStride(r, c) == r + c

\* let idx = i * other.columns + j
Idx(r, c) == r * other.columns + c

\* A faulty variant of Route: one worker too few in the modulus.
RouteShort(idx) == idx % (NUM_THREADS - 1)

\* senders[idx % NUM_THREADS]
Route(idx) == idx % NUM_THREADS

\* A faulty variant of Store: the write also resets the slot before it.
StoreClearsPrevious(buf, output) ==
    IF output.idx = 0
    THEN [buf EXCEPT ![1] = output.val]
    ELSE [buf EXCEPT ![output.idx + 1] = output.val, ![output.idx] = Default]

\* data[output.idx] = output.val
Store(buf, output) == [buf EXCEPT ![output.idx + 1] = output.val]

(***************************************************************************)
(* Initial states: the operands of one call                                *)
(***************************************************************************)
Operands(maxr, maxc) ==
    { Matrix(Iota(1, t[1] * t[2] + t[3]), t[1], t[2]) :
        t \in { x \in (0 .. maxr) \X (0 .. maxc) \X Slack :
                   x[1] * x[2] + x[3] >= 0 } }

Init ==
    /\ self \in Operands(MaxRows, MaxInner)
    /\ other \in Operands(MaxInner, MaxCols)
    /\ self.rows * other.columns <= MaxCells
    /\ viaMul \in BOOLEAN
    /\ pc = "check"
    /\ i = 0
    /\ j = 0
    /\ senders = "none"
    /\ queue = [w \in Workers |-> << >>]
    /\ worker = [w \in Workers |-> "none"]
    /\ allocated = FALSE
    /\ data = << >>
    /\ receivers = << >>
    /\ collected = 0
    /\ chan = << >>
    /\ ret = NoResult
    /\ mulRet = NoResult
    /\ submitted = << >>
    /\ processed = [w \in Workers |-> << >>]
    /\ written = << >>
    /\ raced = FALSE
    /\ fm = Matrix(<< >>, 0, 0)
    /\ fmode = "Display"
    /\ fpc = "idle"
    /\ fi = 0
    /\ fj = 0
    /\ fout = << >>

(***************************************************************************)
(* Dropping the ends of channels                                           *)
(***************************************************************************)

\* Dropping a oneshot sender that was never used closes the channel.
DropSender(ch, c) ==
    [ch EXCEPT ![c + 1].state = IF @ = "open" THEN "closed" ELSE @]

\* A faulty variant of DropSendersOf: the failing worker leaks the reply senders of
\* its queue instead of dropping them.
LeakSendersOf(ch, q) == ch

\* Dropping every message of a queue drops the oneshot sender in each.
DropSendersOf(ch, q) ==
    [n \in 1 .. Len(ch) |->
        IF \E p \in 1 .. Len(q) : q[p].sender = n - 1
        THEN [ch[n] EXCEPT !.state = IF @ = "open" THEN "closed" ELSE @]
        ELSE ch[n]]

\* Dropping the receivers the collector has not consumed yet (the
\* receivers Vec, or the rest of its IntoIter), with any value in them.
DropReceivers(ch, from) ==
    [n \in 1 .. Len(ch) |->
        IF \E p \in (from + 1) .. Len(receivers) : receivers[p] = n - 1
        THEN [ch[n] EXCEPT !.rx = FALSE, !.msg = << >>]
        ELSE ch[n]]

(***************************************************************************)
(* The calling thread: Matrix::multiply                                    *)
(***************************************************************************)

\* A faulty variant of CheckDims: the pool is spawned before the dimensions are
\* compared.
CheckDimsAfterSpawn ==
    /\ pc = "check"
    /\ senders' = IF self.columns # other.rows THEN "dropped" ELSE "alive"
    /\ queue' = [w \in Workers |-> << >>]
    /\ worker' = [w \in Workers |-> "running"]
    /\ IF self.columns # other.rows
       THEN /\ ret' = Err("Matrix dimensions do not match")
            /\ pc' = "returned"
       ELSE /\ pc' = "alloc"
            /\ UNCHANGED ret
    /\ UNCHANGED << fvars, self, other, viaMul, i, j, allocated, data, receivers,
                    collected, chan, mulRet, submitted, processed, written,
                    raced >>

\* if self.columns != other.rows { return Err(...) }
CheckDims ==
    /\ pc = "check"
    /\ IF self.columns # other.rows
       THEN /\ ret' = Err("Matrix dimensions do not match")
            /\ pc' = "returned"
       ELSE /\ pc' = "spawn"
            /\ UNCHANGED ret
    /\ UNCHANGED << fvars, self, other, viaMul, i, j, senders, queue, worker,
                    allocated, data, receivers, collected, chan, mulRet,
                    submitted, processed, written, raced >>

\* let senders = (0..NUM_THREADS).map(|_| { channel(); thread::spawn(..); tx })
SpawnWorkers ==
    /\ pc = "spawn"
    /\ senders' = "alive"
    /\ queue' = [w \in Workers |-> << >>]
    /\ worker' = [w \in Workers |-> "running"]
    /\ pc' = "alloc"
    /\ UNCHANGED << fvars, self, other, viaMul, i, j, allocated, data, receivers,
                    collected, chan, ret, mulRet, submitted, processed,
                    written, raced >>

\* let matrix_len = ..; let mut data = vec![T::default(); matrix_len];
\* let mut receivers = Vec::with_capacity(matrix_len);
Alloc ==
    /\ pc = "alloc"
    /\ allocated' = TRUE
    /\ data' = [p \in 1 .. (self.rows * other.columns) |-> Default]
    /\ receivers' = << >>
    /\ i' = 0
    /\ j' = 0
    /\ pc' = "dispatch"
    /\ UNCHANGED << fvars, self, other, viaMul, senders, queue, worker, collected,
                    chan, ret, mulRet, submitted, processed, written, raced >>

\* The calling thread unwinds from a panic in the dispatch body: the
\* receivers Vec, the buffer and the senders Vec are dropped.
DispatchPanics ==
    RowPanics(self, i) \/ ColumnPanics(other, j)

\* One iteration of the inner loop body (lines 107-121).
Dispatch ==
    /\ pc = "dispatch"
    /\ i < self.rows
    /\ j < other.columns
    /\ IF DispatchPanics
       THEN /\ pc' = "panicked"
            /\ chan' = DropReceivers(chan, 0)
            /\ senders' = "dropped"
            /\ UNCHANGED << i, j, queue, receivers, submitted >>
       ELSE LET row == Row(self, i)
                col == Column(other, j)
                idx == Idx(i, j)
                input == MsgInput(idx, row, col)
                tx == Len(chan)
                msg == Msg(input, tx)
                w == Route(idx)
                sent == worker[w] = "running"
            IN  /\ queue' = IF sent
                            THEN [queue EXCEPT ![w] = Append(@, msg)]
                            ELSE queue
                /\ chan' = IF sent
                           THEN Append(chan, NewChannel)
                           ELSE DropSender(Append(chan, NewChannel), tx)
                /\ submitted' = Append(submitted,
                       [idx |-> idx, worker |-> w, ok |-> sent,
                        mismatch |-> (Len(row) # Len(col))])
                /\ receivers' = Append(receivers, tx)
                /\ j' = j + 1
                /\ UNCHANGED << pc, i, senders >>
    /\ UNCHANGED << fvars, self, other, viaMul, worker, allocated, data, collected,
                    ret, mulRet, processed, written, raced >>

\* The inner loop is exhausted: next i.
DispatchNextRow ==
    /\ pc = "dispatch"
    /\ i < self.rows
    /\ j >= other.columns
    /\ i' = i + 1
    /\ j' = 0
    /\ UNCHANGED << fvars, self, other, viaMul, pc, senders, queue, worker,
                    allocated, data, receivers, collected, chan, ret, mulRet,
                    submitted, processed, written, raced >>

\* A faulty variant of DispatchDone: the senders Vec is dropped once the last
\* task is submitted (drop(senders) before the collector loop).
DispatchDoneDropsSenders ==
    /\ pc = "dispatch"
    /\ i >= self.rows
    /\ pc' = "collect"
    /\ collected' = 0
    /\ senders' = "dropped"
    /\ UNCHANGED << fvars, self, other, viaMul, i, j, queue, worker,
                    allocated, data, receivers, chan, ret, mulRet, submitted,
                    processed, written, raced >>

\* The outer loop is exhausted: on to `for rx in receivers`.
DispatchDone ==
    /\ pc = "dispatch"
    /\ i >= self.rows
    /\ pc' = "collect"
    /\ collected' = 0
    /\ UNCHANGED << fvars, self, other, viaMul, i, j, senders, queue, worker,
                    allocated, data, receivers, chan, ret, mulRet, submitted,
                    processed, written, raced >>

\* A faulty variant of NextReceiver: the receivers are taken from the back
\* (receivers.pop()).
NextReceiverFromBack == receivers[Len(receivers) - collected]

\* The receiver the collector loop takes next.
NextReceiver == receivers[collected + 1]

\* let output = rx.recv()?; data[output.idx] = output.val;
\* recv blocks while the channel is open and empty, fails once the sender
\* was dropped without sending; `?` then returns the error, dropping the
\* rest of the receivers and the senders.
Collect ==
    /\ pc = "collect"
    /\ collected < Len(receivers)
    /\ LET rx == NextReceiver
           ch == chan[rx + 1]
       IN  /\ ch.state # "open"
           /\ IF ch.state = "sent"
              THEN LET output == ch.msg[1]
                   IN  /\ data' = Store(data, output)
                       /\ written' = Append(written, output.idx)
                       /\ chan' = [chan EXCEPT ![rx + 1].rx = FALSE,
                                               ![rx + 1].msg = << >>]
                       /\ collected' = collected + 1
                       /\ UNCHANGED << pc, ret, senders >>
              ELSE /\ ret' = Err("receiving on a closed channel")
                   /\ pc' = "returned"
                   /\ chan' = DropReceivers(chan, collected)
                   /\ senders' = "dropped"
                   /\ UNCHANGED << data, written, collected >>
    /\ UNCHANGED << fvars, self, other, viaMul, i, j, queue, worker, allocated,
                    receivers, mulRet, submitted, processed, raced >>

\* Ok(Matrix { rows: self.rows, columns: other.columns, data })
Return ==
    /\ pc = "collect"
    /\ collected >= Len(receivers)
    /\ ret' = Ok(Matrix(data, self.rows, other.columns))
    /\ pc' = "returned"
    /\ senders' = "dropped"
    /\ UNCHANGED << fvars, self, other, viaMul, i, j, queue, worker, allocated,
                    data, receivers, collected, chan, mulRet, submitted,
                    processed, written, raced >>

\* A faulty variant of Mul: an error of multiply is turned into an empty matrix
\* (unwrap_or_default) instead of a panic.
MulOrDefault ==
    /\ viaMul
    /\ pc = "returned"
    /\ mulRet' = IF ret.kind = "Ok" THEN ret ELSE Ok(Matrix(<< >>, 0, 0))
    /\ pc' = "mul_returned"
    /\ UNCHANGED << fvars, self, other, viaMul, i, j, senders, queue, worker,
                    allocated, data, receivers, collected, chan, ret,
                    submitted, processed, written, raced >>

\* impl Mul: self.multiply(&rhs).unwrap()
Mul ==
    /\ viaMul
    /\ pc = "returned"
    /\ IF ret.kind = "Ok"
       THEN /\ mulRet' = ret
            /\ pc' = "mul_returned"
       ELSE /\ pc' = "panicked"
            /\ UNCHANGED mulRet
    /\ UNCHANGED << fvars, self, other, viaMul, i, j, senders, queue, worker,
                    allocated, data, receivers, collected, chan, ret,
                    submitted, processed, written, raced >>

(***************************************************************************)
(* The worker threads                                                      *)
(***************************************************************************)

\* A reply is sent while the reply of a smaller idx is still pending.
Overtakes(c) ==
    \E n \in 1 .. c : chan[n].state = "open"

\* A faulty variant of WorkerStep: the worker takes the newest message of
\* its queue instead of the oldest.
WorkerStepLifo(w) ==
    /\ worker[w] = "running"
    /\ queue[w] # << >>
    /\ LET msg == queue[w][Len(queue[w])]
           res == dot_product(msg.input.row, msg.input.col)
           c == msg.sender
       IN  IF ~res.ok
           THEN /\ worker' = [worker EXCEPT ![w] = "failed"]
                /\ chan' = DropSendersOf(chan, queue[w])
                /\ queue' = [queue EXCEPT ![w] = << >>]
                /\ processed' = [processed EXCEPT ![w] =
                       Append(@, [idx |-> msg.input.idx, did |-> "failed"])]
                /\ UNCHANGED raced
           ELSE /\ queue' = [queue EXCEPT ![w] = SubSeq(@, 1, Len(@) - 1)]
                /\ IF chan[c + 1].rx
                   THEN /\ chan' = [chan EXCEPT
                               ![c + 1].state = "sent",
                               ![c + 1].msg = << MsgOutput(msg.input.idx, res.val) >>]
                        /\ processed' = [processed EXCEPT ![w] =
                               Append(@, [idx |-> msg.input.idx, did |-> "replied"])]
                        /\ raced' = (raced \/ Overtakes(c))
                   ELSE /\ chan' = DropSender(chan, c)
                        /\ processed' = [processed EXCEPT ![w] =
                               Append(@, [idx |-> msg.input.idx, did |-> "undelivered"])]
                        /\ UNCHANGED raced
                /\ UNCHANGED worker
    /\ UNCHANGED << fvars, self, other, viaMul, pc, i, j, senders, allocated, data,
                    receivers, collected, ret, mulRet, submitted, written >>

\* A faulty variant of WorkerStep: a failed send of the reply ends the thread
\* too (msg.sender.send(..)?), dropping the queue.
WorkerStepSendFatal(w) ==
    /\ worker[w] = "running"
    /\ queue[w] # << >>
    /\ LET msg == Head(queue[w])
           res == dot_product(msg.input.row, msg.input.col)
           c == msg.sender
       IN  IF ~res.ok
           THEN /\ worker' = [worker EXCEPT ![w] = "failed"]
                /\ chan' = DropSendersOf(chan, queue[w])
                /\ queue' = [queue EXCEPT ![w] = << >>]
                /\ processed' = [processed EXCEPT ![w] =
                       Append(@, [idx |-> msg.input.idx, did |-> "failed"])]
                /\ UNCHANGED raced
           ELSE IF chan[c + 1].rx
                THEN /\ queue' = [queue EXCEPT ![w] = Tail(@)]
                     /\ chan' = [chan EXCEPT
                            ![c + 1].state = "sent",
                            ![c + 1].msg = << MsgOutput(msg.input.idx, res.val) >>]
                     /\ processed' = [processed EXCEPT ![w] =
                            Append(@, [idx |-> msg.input.idx, did |-> "replied"])]
                     /\ raced' = (raced \/ Overtakes(c))
                     /\ UNCHANGED worker
                ELSE /\ worker' = [worker EXCEPT ![w] = "failed"]
                     /\ chan' = DropSendersOf(chan, queue[w])
                     /\ queue' = [queue EXCEPT ![w] = << >>]
                     /\ processed' = [processed EXCEPT ![w] =
                            Append(@, [idx |-> msg.input.idx, did |-> "undelivered"])]
                     /\ UNCHANGED raced
    /\ UNCHANGED << fvars, self, other, viaMul, pc, i, j, senders, allocated, data,
                    receivers, collected, ret, mulRet, submitted, written >>

\* One iteration of `for msg in rx` (lines 88-93): the dot product, then
\* either `?` ends the thread, dropping the message's sender and the queue
\* with every message in it, or the reply is sent (a failed send is only
\* logged).
WorkerStep(w) ==
    /\ worker[w] = "running"
    /\ queue[w] # << >>
    /\ LET msg == Head(queue[w])
           res == dot_product(msg.input.row, msg.input.col)
           c == msg.sender
       IN  IF ~res.ok
           THEN /\ worker' = [worker EXCEPT ![w] = "failed"]
                /\ chan' = DropSendersOf(chan, queue[w])
                /\ queue' = [queue EXCEPT ![w] = << >>]
                /\ processed' = [processed EXCEPT ![w] =
                       Append(@, [idx |-> msg.input.idx, did |-> "failed"])]
                /\ UNCHANGED raced
           ELSE /\ queue' = [queue EXCEPT ![w] = Tail(@)]
                /\ IF chan[c + 1].rx
                   THEN /\ chan' = [chan EXCEPT
                               ![c + 1].state = "sent",
                               ![c + 1].msg = << MsgOutput(msg.input.idx, res.val) >>]
                        /\ processed' = [processed EXCEPT ![w] =
                               Append(@, [idx |-> msg.input.idx, did |-> "replied"])]
                        /\ raced' = (raced \/ Overtakes(c))
                   ELSE /\ chan' = DropSender(chan, c)
                        /\ processed' = [processed EXCEPT ![w] =
                               Append(@, [idx |-> msg.input.idx, did |-> "undelivered"])]
                        /\ UNCHANGED raced
                /\ UNCHANGED worker
    /\ UNCHANGED << fvars, self, other, viaMul, pc, i, j, senders, allocated, data,
                    receivers, collected, ret, mulRet, submitted, written >>

\* A faulty variant of WorkerExit: the loop ends as soon as the queue is empty
\* (try_recv), whether or not the senders were dropped.
WorkerExitOnEmpty(w) ==
    /\ worker[w] = "running"
    /\ queue[w] = << >>
    /\ worker' = [worker EXCEPT ![w] = "exited"]
    /\ UNCHANGED << fvars, self, other, viaMul, pc, i, j, senders, queue, allocated,
                    data, receivers, collected, chan, ret, mulRet, submitted,
                    processed, written, raced >>

\* The queue is closed and empty: the for loop ends, the thread returns Ok.
WorkerExit(w) ==
    /\ worker[w] = "running"
    /\ queue[w] = << >>
    /\ senders = "dropped"
    /\ worker' = [worker EXCEPT ![w] = "exited"]
    /\ UNCHANGED << fvars, self, other, viaMul, pc, i, j, senders, queue, allocated,
                    data, receivers, collected, chan, ret, mulRet, submitted,
                    processed, written, raced >>

(***************************************************************************)
(* impl Display / impl Debug for Matrix                                    *)
(***************************************************************************)

\* Text is a sequence of characters.
Digit(d) == << "0", "1", "2", "3", "4", "5", "6", "7", "8", "9" >>[d + 1]

RECURSIVE Digits(_)
Digits(n) ==
    IF n < 10 THEN << Digit(n) >>
    ELSE Append(Digits(n \div 10), Digit(n % 10))

\* "{}" of an integer: a minus sign for a negative one, then its decimal
\* digits, most significant first.
ToString(n) == IF n < 0 THEN << "-" >> \o Digits(0 - n) ELSE Digits(n)

\* The element values the formatted matrices are filled with, in rotation.
FmtVals == << 22, 28, 49, 64, 0, -7, 105 >>

FmtData(n, s) == [p \in 1 .. n |-> FmtVals[((p - 1 + s) % Len(FmtVals)) + 1]]

FmtOperands ==
    { Matrix(FmtData(t[1] * t[2] + t[3], t[4]), t[1], t[2]) :
        t \in { x \in (0 .. MaxFmtRows) \X (0 .. MaxFmtCols) \X Slack
                       \X (0 .. (Len(FmtVals) - 1)) :
                   x[1] * x[2] + x[3] >= 0 } }

\* No multiply call is in progress.
NoCall ==
    /\ self = Matrix(<< >>, 0, 0)
    /\ other = Matrix(<< >>, 0, 0)
    /\ viaMul = FALSE
    /\ pc = "idle"
    /\ i = 0
    /\ j = 0
    /\ senders = "none"
    /\ queue = [w \in Workers |-> << >>]
    /\ worker = [w \in Workers |-> "none"]
    /\ allocated = FALSE
    /\ data = << >>
    /\ receivers = << >>
    /\ collected = 0
    /\ chan = << >>
    /\ ret = NoResult
    /\ mulRet = NoResult
    /\ submitted = << >>
    /\ processed = [w \in Workers |-> << >>]
    /\ written = << >>
    /\ raced = FALSE

RenderInit ==
    /\ NoCall
    /\ fm \in FmtOperands
    /\ fmode \in {"Display", "Debug"}
    /\ fpc = "start"
    /\ fi = 0
    /\ fj = 0
    /\ fout = << >>

\* Debug::fmt: write!(f, "Matrix(rows={}, columns={}, {})", ..): the text
\* before the third argument.
DebugPrefix ==
    /\ fpc = "start"
    /\ fmode = "Debug"
    /\ fout' = fout
               \o << "M", "a", "t", "r", "i", "x", "(", "r", "o", "w", "s", "=" >>
               \o ToString(fm.rows)
               \o << ",", " ", "c", "o", "l", "u", "m", "n", "s", "=" >>
               \o ToString(fm.columns)
               \o << ",", " " >>
    /\ fpc' = "display"
    /\ UNCHANGED << mvars, fm, fmode, fi, fj >>

\* Display::fmt: write!(f, "{{")
DisplayOpen ==
    /\ \/ fpc = "display"
       \/ fpc = "start" /\ fmode = "Display"
    /\ fout' = Append(fout, "{")
    /\ fi' = 0
    /\ fj' = 0
    /\ fpc' = "loop"
    /\ UNCHANGED << mvars, fm, fmode >>

\* A faulty variant of DisplayElement: the space between elements is written after
\* the last element of a row too.
DisplayElementAlwaysGap ==
    /\ fpc = "loop"
    /\ fi < fm.rows
    /\ fj < fm.columns
    /\ IF fi * fm.columns + fj >= Len(fm.data)
       THEN /\ fpc' = "panicked"
            /\ UNCHANGED << fout, fj >>
       ELSE /\ fout' = fout \o ToString(fm.data[fi * fm.columns + fj + 1])
                            \o << " ", " " >>
            /\ fj' = fj + 1
            /\ UNCHANGED fpc
    /\ UNCHANGED << mvars, fm, fmode, fi >>

\* The body of the inner loop: write!(f, "{} ", self.data[i * columns + j]),
\* which panics when the index is out of range, then
\* if j != self.columns - 1 { write!(f, " ") }.
DisplayElement ==
    /\ fpc = "loop"
    /\ fi < fm.rows
    /\ fj < fm.columns
    /\ IF fi * fm.columns + fj >= Len(fm.data)
       THEN /\ fpc' = "panicked"
            /\ UNCHANGED << fout, fj >>
       ELSE /\ fout' = fout \o ToString(fm.data[fi * fm.columns + fj + 1])
                            \o << " " >>
                            \o (IF fj # fm.columns - 1 THEN << " " >> ELSE << >>)
            /\ fj' = fj + 1
            /\ UNCHANGED fpc
    /\ UNCHANGED << mvars, fm, fmode, fi >>

\* The inner loop is exhausted: if i != self.rows - 1 { write!(f, ", ") }.
DisplayRowEnd ==
    /\ fpc = "loop"
    /\ fi < fm.rows
    /\ fj >= fm.columns
    /\ fout' = fout \o (IF fi # fm.rows - 1 THEN << ",", " " >> ELSE << >>)
    /\ fi' = fi + 1
    /\ fj' = 0
    /\ UNCHANGED << mvars, fm, fmode, fpc >>

\* The outer loop is exhausted: write!(f, "}}").
DisplayClose ==
    /\ fpc = "loop"
    /\ fi >= fm.rows
    /\ fout' = Append(fout, "}")
    /\ fpc' = IF fmode = "Debug" THEN "debug_close" ELSE "done"
    /\ UNCHANGED << mvars, fm, fmode, fi, fj >>

\* Debug::fmt: the text after the third argument.
DebugSuffix ==
    /\ fpc = "debug_close"
    /\ fout' = Append(fout, ")")
    /\ fpc' = "done"
    /\ UNCHANGED << mvars, fm, fmode, fi, fj >>

RenderNext ==
    \/ DebugPrefix
    \/ DisplayOpen
    \/ DisplayElement
    \/ DisplayRowEnd
    \/ DisplayClose
    \/ DebugSuffix

Next ==
    \/ CheckDims
    \/ SpawnWorkers
    \/ Alloc
    \/ Dispatch
    \/ DispatchNextRow
    \/ DispatchDone
    \/ Collect
    \/ Return
    \/ Mul
    \/ \E w \in Workers : WorkerStep(w)
    \/ \E w \in Workers : WorkerExit(w)

vars == << mvars, fvars >>

Spec == Init /\ [][Next]_vars

RenderSpec == RenderInit /\ [][RenderNext]_vars

\* The calling thread and every worker are OS threads: each keeps running
\* while it has a step to take.
MainStep ==
    \/ CheckDims
    \/ SpawnWorkers
    \/ Alloc
    \/ Dispatch
    \/ DispatchNextRow
    \/ DispatchDone
    \/ Collect
    \/ Return
    \/ Mul

FairSpec ==
    /\ Spec
    /\ WF_vars(MainStep)
    /\ \A w \in Workers : WF_vars(WorkerStep(w))
    /\ \A w \in Workers : WF_vars(WorkerExit(w))

(***************************************************************************)
(* Vocabulary of the properties                                            *)
(***************************************************************************)

\* The Matrix invariant of the data model: data.len() = rows * columns.
WellFormed(m) == Len(m.data) = m.rows * m.columns

Compatible == self.columns = other.rows

GoodOperands == WellFormed(self) /\ WellFormed(other) /\ Compatible

Cells == 0 .. (self.rows * other.columns - 1)

\* multiply panicked (the thread unwinds from inside multiply).
MultiplyPanicked == pc = "panicked" /\ ret.kind = "None"

\* multiply is over: it returned or it panicked.
MultiplyEnded == ret.kind # "None" \/ MultiplyPanicked

Count(log, x) == Cardinality({n \in 1 .. Len(log) : log[n] = x})

SubmitCount(idx) ==
    Cardinality({n \in 1 .. Len(submitted) : submitted[n].idx = idx})

\* A task with row and column of different lengths was put on a queue.
MismatchFed ==
    \E n \in 1 .. Len(submitted) : submitted[n].ok /\ submitted[n].mismatch

\* The dot product of some task failed inside a worker.
DotFailedAt(w, idx) ==
    \E n \in 1 .. Len(processed[w]) :
        processed[w][n].idx = idx /\ processed[w][n].did = "failed"

DotFailed == \E w \in Workers, idx \in Cells : DotFailedAt(w, idx)

\* sum over t in [0, k) of A[i,t] * B[t,j], on the flat row-major data.
RECURSIVE CellSum(_, _, _, _, _)
CellSum(a, b, r, c, t) ==
    IF t = 0 THEN 0
    ELSE CellSum(a, b, r, c, t - 1)
         + a.data[r * a.columns + (t - 1) + 1] * b.data[(t - 1) * b.columns + c + 1]

Product(a, b) ==
    Matrix([p \in 1 .. (a.rows * b.columns) |->
               CellSum(a, b, (p - 1) \div b.columns, (p - 1) % b.columns, a.columns)],
           a.rows, b.columns)

(***************************************************************************)
(* C1                                                                      *)
(***************************************************************************)

\* C1: for well-formed operands A (r x k) and B (k x c), r, k, c >= 0,
\* multiply does not panic and what it returns is Ok of the r x c matrix
\* whose element i*c + j is the sum over t of A[i,t] * B[t,j].
C1_ReturnsProduct ==
    GoodOperands =>
        /\ ~MultiplyPanicked
        /\ (ret.kind # "None" => ret = Ok(Product(self, other)))

(***************************************************************************)
(* C2                                                                      *)
(***************************************************************************)

NothingStarted ==
    /\ senders = "none"
    /\ \A w \in Workers : worker[w] = "none" /\ queue[w] = << >>
    /\ chan = << >>
    /\ submitted = << >>
    /\ receivers = << >>
    /\ ~allocated
    /\ data = << >>
    /\ written = << >>

\* C2: when self.columns # other.rows, the first step of multiply returns
\* the dimension error, and at no time is a worker spawned, a queue or a
\* reply channel created, a task submitted or the output buffer allocated
\* or written; no step changes either operand.
C2_MismatchDoesNothing ==
    /\ [](~Compatible =>
            /\ NothingStarted
            /\ (pc # "check" => ret = Err("Matrix dimensions do not match")))
    /\ [][~Compatible => (self' = self /\ other' = other)]_vars

C2_Witness ==
    /\ ~Compatible
    /\ pc = "returned"
    /\ ret.kind = "Err"
    /\ self.rows > 0
    /\ other.columns > 0

(***************************************************************************)
(* C3                                                                      *)
(***************************************************************************)

\* C3: for well-formed compatible operands, no destination index is ever
\* the idx of two tasks, submitted twice, received twice or written twice,
\* every task built is put on a queue, only indexes of [0, rows*columns)
\* occur, and when multiply returns each of them has been submitted, received
\* and written exactly once.
C3_ExactlyOnce ==
    GoodOperands =>
        /\ \A n \in 1 .. Len(submitted) :
              submitted[n].ok /\ submitted[n].idx \in Cells
        /\ \A n \in 1 .. Len(written) : written[n] \in Cells
        /\ \A idx \in Cells :
              /\ SubmitCount(idx) <= 1
              /\ Count(written, idx) <= 1
              /\ Count(written, idx) <= SubmitCount(idx)
        /\ Len(written) = collected
        /\ (ret.kind # "None" =>
              /\ collected = self.rows * other.columns
              /\ \A idx \in Cells :
                    SubmitCount(idx) = 1 /\ Count(written, idx) = 1)

C3_Witness ==
    /\ GoodOperands
    /\ ret.kind = "Ok"
    /\ self.rows * other.columns > NUM_THREADS

(***************************************************************************)
(* C4                                                                      *)
(***************************************************************************)

CellPairs == (0 .. (self.rows - 1)) \X (0 .. (other.columns - 1))

\* What the operands alone decide: the sequential outcome of the call.
Sequential ==
    IF ~Compatible THEN Err("Matrix dimensions do not match")
    ELSE IF \E x \in CellPairs : Len(Row(self, x[1])) # ColumnLen(other, x[2])
    THEN Err("receiving on a closed channel")
    ELSE Ok(Matrix([p \in 1 .. (self.rows * other.columns) |->
                       SumProd(Row(self, (p - 1) \div other.columns),
                               Column(other, (p - 1) % other.columns), 1, Default)],
                   self.rows, other.columns))

\* C4: what multiply returns (rows, columns and every element of data, or
\* the error) is decided by the operands alone: it is the same in every
\* interleaving of the workers and the calling thread.
C4_Deterministic ==
    ret.kind # "None" => ret = Sequential

\* multiply returned Ok although some worker replied out of idx order.
C4_Witness ==
    /\ ret.kind = "Ok"
    /\ raced
    /\ self.rows * other.columns > NUM_THREADS

(***************************************************************************)
(* C5                                                                      *)
(***************************************************************************)

\* C5: with fair scheduling, for well-formed compatible operands multiply
\* eventually returns Ok, and it returns Ok only when the replies of all
\* rows*columns tasks have been collected.
C5_EventuallyOk ==
    /\ (GoodOperands ~> (ret.kind = "Ok"))
    /\ [](GoodOperands /\ ret.kind = "Ok" =>
             collected = self.rows * other.columns)

(***************************************************************************)
(* C6                                                                      *)
(***************************************************************************)

\* C6: with fair scheduling, once a task whose row and column differ in
\* length has been put on a worker's queue, multiply eventually returns an
\* error to the caller.
C6_ReturnsError ==
    MismatchFed ~> (ret.kind = "Err")

(***************************************************************************)
(* C7                                                                      *)
(***************************************************************************)

\* C7: a * b returns exactly the matrix a.multiply(&b) returned, and when
\* self.columns # other.rows it returns nothing: the thread panics.
C7_MulUnwraps ==
    viaMul =>
        /\ (pc = "mul_returned" => ret.kind = "Ok" /\ mulRet = ret)
        /\ (pc # "mul_returned" => mulRet = NoResult)
        /\ (pc = "panicked" => ret.kind # "Ok")
        /\ (~Compatible /\ pc \notin {"check", "returned"} => pc = "panicked")

C7_Witness ==
    /\ viaMul
    /\ ~Compatible
    /\ pc = "panicked"
    /\ ret.kind = "Err"

(***************************************************************************)
(* C8                                                                      *)
(***************************************************************************)

\* C8: the task of destination index idx is sent to worker idx % 4 only,
\* sits on the queue of worker idx % 4 only, and its dot product is
\* computed by worker idx % 4 only.
C8_Assignment ==
    /\ \A n \in 1 .. Len(submitted) :
          submitted[n].worker = submitted[n].idx % 4
    /\ \A w \in Workers :
          /\ \A n \in 1 .. Len(queue[w]) : queue[w][n].input.idx % 4 = w
          /\ \A n \in 1 .. Len(processed[w]) : processed[w][n].idx % 4 = w

\* Worker 1 has computed the cell of index 5.
C8_Witness ==
    \E n \in 1 .. Len(processed[1]) :
        processed[1][n].idx = 5 /\ processed[1][n].did = "replied"

(***************************************************************************)
(* C9                                                                      *)
(***************************************************************************)

RECURSIVE Join(_, _)
\* The texts of a sequence, with sep between adjacent ones.
Join(texts, sep) ==
    IF Len(texts) = 0 THEN << >>
    ELSE IF Len(texts) = 1 THEN texts[1]
    ELSE texts[1] \o sep \o Join(Tail(texts), sep)

\* A row: each element followed by one space, adjacent elements separated
\* by one further space.
RowText(m, r) ==
    Join([c \in 1 .. m.columns |->
             ToString(m.data[r * m.columns + c]) \o << " " >>],
         << " " >>)

DisplayText(m) ==
    << "{" >> \o Join([r \in 1 .. m.rows |-> RowText(m, r - 1)], << ",", " " >>)
           \o << "}" >>

DebugText(m) ==
    << "M", "a", "t", "r", "i", "x", "(", "r", "o", "w", "s", "=" >>
    \o ToString(m.rows)
    \o << ",", " ", "c", "o", "l", "u", "m", "n", "s", "=" >>
    \o ToString(m.columns) \o << ",", " " >> \o DisplayText(m) \o << ")" >>

\* "{22  28 , 49  64 }"
Text22_28_49_64 ==
    << "{", "2", "2", " ", " ", "2", "8", " ", ",", " ",
       "4", "9", " ", " ", "6", "4", " ", "}" >>

C10_NeverReturns ==
    DotFailed => ret.kind = "None"

\* C10 amended: the worker that failed on a task never sends a TaskOutput
\* for it, but it drops the task's reply sender, so the channel is closed,
\* not open: with fair scheduling multiply ends, and not with Ok.
C10_FailureSurfaces ==
    /\ [](\A w \in Workers, idx \in Cells :
             DotFailedAt(w, idx) =>
                 \A n \in 1 .. Len(submitted) :
                     submitted[n].idx = idx =>
                         /\ chan[receivers[n] + 1].state = "closed"
                         /\ chan[receivers[n] + 1].msg = << >>)
    /\ [](DotFailed => ret.kind # "Ok")
    /\ (DotFailed ~> MultiplyEnded)

\* The collector met the closed channel of a failed task and returned Err.
C10_Witness ==
    /\ DotFailed
    /\ ret.kind = "Err"
    /\ \E w \in Workers : DotFailedAt(w, collected)

(***************************************************************************)
(* C11                                                                     *)
(***************************************************************************)

\* C11: the k-th retained receiver (k from 0) is the receiver of the task
\* with idx = k, and the collector takes the receivers in that order: the
\* n-th slot it writes is slot n - 1, so slot idx is written only after
\* slots 0 .. idx-1, in whatever order the workers replied.
C11_CollectInOrder ==
    /\ Len(receivers) = Len(submitted)
    /\ \A n \in 1 .. Len(submitted) : submitted[n].idx = n - 1
    /\ \A w \in Workers : \A n \in 1 .. Len(queue[w]) :
          receivers[queue[w][n].input.idx + 1] = queue[w][n].sender
    /\ \A n \in 1 .. Len(chan) :
          chan[n].msg # << >> => receivers[chan[n].msg[1].idx + 1] = n - 1
    /\ Len(written) = collected
    /\ \A n \in 1 .. Len(written) : written[n] = n - 1

\* The collector has written every slot of more than NUM_THREADS, in idx
\* order, although the workers replied out of idx order.
C11_Witness ==
    /\ pc = "collect"
    /\ raced
    /\ collected = self.rows * other.columns
    /\ collected > NUM_THREADS
    /\ \A n \in 1 .. Len(written) : written[n] = n - 1

(***************************************************************************)
(* C12                                                                     *)
(***************************************************************************)

RECURSIVE DotSum(_, _, _)
\* a[1]*b[1] + ... + a[t]*b[t]
DotSum(a, b, t) == IF t = 0 THEN 0 ELSE DotSum(a, b, t - 1) + a[t] * b[t]

\* Worker w has just sent a reply.
Replied(w) ==
    /\ Len(processed'[w]) = Len(processed[w]) + 1
    /\ processed'[w][Len(processed'[w])].did = "replied"

\* C12: the reply a worker sends goes into the reply channel of the task it
\* took, with that task's idx and the dot product of that task's row and
\* column; a channel never holds more than one TaskOutput and the one it
\* holds is never replaced; the TaskOutput the collector receives on the
\* k-th retained receiver has idx = k.
C12_ReplyMatchesTask ==
    /\ [][\A w \in Workers : Replied(w) =>
            LET msg == Head(queue[w])
            IN  /\ chan[msg.sender + 1].state = "open"
                /\ chan'[msg.sender + 1].state = "sent"
                /\ chan'[msg.sender + 1].msg =
                      << [idx |-> msg.input.idx,
                          val |-> DotSum(msg.input.row, msg.input.col,
                                         Len(msg.input.row))] >>
                /\ \A n \in 1 .. Len(chan) :
                      n # msg.sender + 1 => chan'[n] = chan[n]]_vars
    /\ [][\A n \in 1 .. Len(chan) :
            chan[n].state = "sent" =>
                /\ chan'[n].state = "sent"
                /\ chan'[n].msg \in {chan[n].msg, << >>}]_vars
    /\ [](\A n \in 1 .. Len(chan) :
            /\ Len(chan[n].msg) <= 1
            /\ chan[n].msg # << >> => chan[n].state = "sent")
    /\ [][written' # written =>
            /\ chan[receivers[collected + 1] + 1].msg # << >>
            /\ chan[receivers[collected + 1] + 1].msg[1].idx = collected
            /\ written' = Append(written, collected)]_vars

\* The reply of cell 5, a non-zero dot product of two vectors of length 2
\* or more, lies in the sixth channel and has not been received yet.
C12_Witness ==
    /\ Len(chan) >= 6
    /\ chan[6].msg # << >>
    /\ chan[6].msg[1].idx = 5
    /\ chan[6].msg[1].val > 0
    /\ self.columns >= 2

(***************************************************************************)
(* C13                                                                     *)
(***************************************************************************)

Terminated(w) == worker[w] \in {"exited", "failed"}

\* Every task sent to worker w is in the log of what w processed.
AllProcessed(w) ==
    \A n \in 1 .. Len(submitted) :
        submitted[n].worker = w =>
            \E p \in 1 .. Len(processed[w]) :
                processed[w][p].idx = submitted[n].idx

\* C13: with fair scheduling, once the senders of the queues are dropped
\* every worker eventually terminates; a worker leaves its loop normally
\* only when its queue is closed and empty; and while no dot product has
\* failed, a terminated worker has processed every task routed to it.
C13_WorkersTerminate ==
    /\ (senders = "dropped") ~> (\A w \in Workers : Terminated(w))
    /\ [](\A w \in Workers :
            worker[w] = "exited" => senders = "dropped" /\ queue[w] = << >>)
    /\ [](~DotFailed =>
            \A w \in Workers : Terminated(w) => AllProcessed(w))

\* Every worker has left its loop after processing two tasks.
C13_Witness ==
    \A w \in Workers : worker[w] = "exited" /\ Len(processed[w]) = 2

(***************************************************************************)
(* C14                                                                     *)
(***************************************************************************)

\* Worker w has just failed to send a reply.
Undelivered(w) ==
    /\ Len(processed'[w]) = Len(processed[w]) + 1
    /\ processed'[w][Len(processed'[w])].did = "undelivered"

\* C14: a worker's send of a reply fails only when the receiver of that
\* reply channel is gone, and the step in which it fails leaves the worker
\* running with the rest of its queue, the next task at the head; a worker
\* whose last act was a failed send has not terminated with an error.
C14_SendErrorNotFatal ==
    /\ [][\A w \in Workers : Undelivered(w) =>
            /\ ~chan[Head(queue[w]).sender + 1].rx
            /\ worker'[w] = "running"
            /\ queue'[w] = Tail(queue[w])]_vars
    /\ [](\A w \in Workers :
            (/\ processed[w] # << >>
             /\ processed[w][Len(processed[w])].did = "undelivered")
            => worker[w] # "failed")

\* After the collector returned early with an error, worker 1 failed to
\* deliver the reply of cell 1 and went on to cell 5.
C14_Witness ==
    /\ ret.kind = "Err"
    /\ Len(processed[1]) = 2
    /\ processed[1][1] = [idx |-> 1, did |-> "undelivered"]
    /\ processed[1][2].idx = 5

(***************************************************************************)
(* C15                                                                     *)
(***************************************************************************)

\* The task msg holds row idx \div c of self and column idx % c of other,
\* both of length self.columns = other.rows.
TaskShaped(msg) ==
    LET idx == msg.input.idx
        r == idx \div other.columns
        c == idx % other.columns
        row == msg.input.row
        col == msg.input.col
    IN  /\ Len(row) = self.columns
        /\ Len(col) = other.rows
        /\ \A t \in 1 .. self.columns :
              /\ row[t] = self.data[r * self.columns + t]
              /\ col[t] = other.data[(t - 1) * other.columns + c + 1]

\* C15: for compatible operands whose data length is rows*columns, every
\* task the dispatch loop builds reaches its worker's queue, holds row i of
\* self and column j of other for idx = i*other.columns + j, both of length
\* self.columns = other.rows; no task has operands of different lengths and
\* no dot product fails in any worker.
C15_TasksWellShaped ==
    GoodOperands =>
        /\ \A w \in Workers : \A n \in 1 .. Len(queue[w]) : TaskShaped(queue[w][n])
        /\ \A n \in 1 .. Len(submitted) : submitted[n].ok /\ ~submitted[n].mismatch
        /\ \A n \in 1 .. Len(submitted) :
              \/ \E m \in 1 .. Len(queue[submitted[n].worker]) :
                    queue[submitted[n].worker][m].input.idx = submitted[n].idx
              \/ \E m \in 1 .. Len(processed[submitted[n].worker]) :
                    processed[submitted[n].worker][m].idx = submitted[n].idx
        /\ ~DotFailed
        /\ \A w \in Workers : worker[w] # "failed"

\* A 2 x 3 by 3 x 3 product whose task for cell 5 (row 1, column 2) is queued.
C15_Witness ==
    /\ GoodOperands
    /\ self.columns = 3
    /\ other.columns = 3
    /\ queue[1] # << >>
    /\ Head(queue[1]).input.idx = 5
    /\ TaskShaped(Head(queue[1]))

(***************************************************************************)
(* C16                                                                     *)
(***************************************************************************)

\* Some worker thread takes the step: it finishes a loop iteration or ends.
WorkerActs ==
    \/ processed' # processed
    \/ \E w \in Workers : worker[w] = "running" /\ worker'[w] # "running"

\* The collector loop takes a reply out of its channel.
CollectorReceives ==
    /\ pc = "collect"
    /\ collected' = collected + 1

\* C16: no step of a worker changes the output buffer; the operands never
\* change; once allocated, the buffer changes only in a step of the collector
\* loop, which writes the value of the reply it received into the slot the
\* reply's idx names and leaves the length and every other slot as they were.
C16_Frame ==
    /\ [][WorkerActs => data' = data]_vars
    /\ [][self' = self /\ other' = other]_vars
    /\ [][allocated /\ data' # data => CollectorReceives]_vars
    /\ [][CollectorReceives =>
            LET output == chan[NextReceiver + 1].msg[1]
            IN  /\ Len(data') = Len(data)
                /\ data'[output.idx + 1] = output.val
                /\ \A p \in 1 .. Len(data) : p # output.idx + 1 => data'[p] = data[p]
                /\ written' = Append(written, output.idx)]_vars

\* Three replies were collected and each left a nonzero value in its slot.
C16_Witness ==
    /\ pc = "collect"
    /\ collected = 3
    /\ Len(data) >= 4
    /\ data[1] # Default /\ data[2] # Default /\ data[3] # Default
    /\ data[4] = Default

(***************************************************************************)
(* C17                                                                     *)
(***************************************************************************)

\* A failed dot product is the last thing its worker did: the thread has
\* ended with the error and holds no task any more.
FailureEndsWorker ==
    \A w \in Workers : \A n \in 1 .. Len(processed[w]) :
        processed[w][n].did = "failed" =>
            /\ n = Len(processed[w])
            /\ worker[w] = "failed"
            /\ queue[w] = << >>

\* No reply was ever sent for the failed task or for a later task of the
\* same worker.
NoReplyAfterFailure ==
    \A w \in Workers : \A n \in 1 .. Len(processed[w]) :
        processed[w][n].did = "failed" =>
            \A m \in 1 .. Len(submitted) :
                (submitted[m].worker = w /\ submitted[m].idx >= processed[w][n].idx)
                => /\ chan[receivers[m] + 1].state # "sent"
                   /\ chan[receivers[m] + 1].msg = << >>
                   /\ \A q \in 1 .. Len(written) : written[q] # submitted[m].idx

\* Once the dispatch loop is over, one task per cell was submitted or
\* attempted and one receiver per cell is retained.
AllCellsDispatched ==
    pc \notin {"check", "spawn", "alloc", "dispatch"} =>
        /\ Len(submitted) = self.rows * other.columns
        /\ Len(receivers) = self.rows * other.columns
        /\ \A m \in 1 .. Len(submitted) : submitted[m].idx = m - 1

\* C17: a failed dot product ends the worker that hit it, no task queued for
\* or later routed to that worker gets a reply, and the dispatch loop still
\* submits or attempts every remaining task and retains a receiver for each
\* of the self.rows * other.columns cells.
C17_FailureStopsWorker ==
    DotFailed => FailureEndsWorker /\ NoReplyAfterFailure /\ AllCellsDispatched

(***************************************************************************)
(* C18                                                                     *)
(***************************************************************************)

\* The reply channel of cell idx (channel idx, by C11) is still waiting for
\* its worker.
Pending(idx) == idx < Len(chan) /\ chan[idx + 1].state = "open"

\* C18: worker w processes its tasks in the order they were submitted, which
\* is increasing idx: the n-th task it processes is w + (n-1)*NUM_THREADS,
\* its queue holds the following ones in increasing order, each step takes
\* the least idx of the queue, and a cell's reply is never still awaited
\* once a later cell of the same worker has been decided.
C18_WorkerFifo ==
    /\ [](\A w \in Workers :
            /\ \A n \in 1 .. Len(processed[w]) :
                  processed[w][n].idx = w + (n - 1) * NUM_THREADS
            /\ \A n \in 1 .. Len(queue[w]) :
                  queue[w][n].input.idx
                      = w + (Len(processed[w]) + n - 1) * NUM_THREADS)
    /\ [][\A w \in Workers : processed'[w] # processed[w] =>
            /\ Len(processed'[w]) = Len(processed[w]) + 1
            /\ processed'[w][Len(processed'[w])].idx = Head(queue[w]).input.idx
            /\ \A n \in 1 .. Len(queue'[w]) :
                  queue'[w][n].input.idx > Head(queue[w]).input.idx]_vars
    /\ [](\A idx \in Cells :
            (idx + NUM_THREADS < Len(chan) /\ ~Pending(idx + NUM_THREADS))
            => ~Pending(idx))

\* Worker 0 replied to cell 0, then to cell 4, while the other workers have
\* not started.
C18_Witness ==
    /\ processed[0] = << [idx |-> 0, did |-> "replied"],
                         [idx |-> NUM_THREADS, did |-> "replied"] >>
    /\ \A w \in Workers \ {0} : processed[w] = << >> /\ Len(queue[w]) >= 1

(***************************************************************************)
(* C19                                                                     *)
(***************************************************************************)

\* Nothing failed so far: no dot product failed and multiply did not panic.
FailureFree == ~DotFailed /\ ~MultiplyPanicked

\* C19: the sending ends of the worker queues live from the spawn loop to
\* the end of multiply: they are alive throughout submission and collection
\* and dropped only when multiply returns or unwinds; multiply returns
\* without waiting for any worker; so while nothing has failed and multiply
\* has not returned, no worker has terminated.
C19_SendersHeld ==
    /\ [](pc \in {"alloc", "dispatch", "collect"} => senders = "alive")
    /\ [](senders = "dropped" => MultiplyEnded)
    /\ [][senders' = "dropped" /\ senders # "dropped" =>
            /\ MultiplyEnded'
            /\ worker' = worker]_vars
    /\ [](FailureFree /\ ret.kind = "None" =>
            \A w \in Workers : ~Terminated(w))

\* multiply has returned the product of eight cells while all four workers
\* are still alive.
C19_Witness ==
    /\ ret.kind = "Ok"
    /\ Len(ret.data) = 8
    /\ \A w \in Workers : worker[w] = "running" /\ Len(processed[w]) = 2

====
